---- MODULE Spec2Model ----
(***************************************************************************)
(* maplibre-gl-map-to-image: toElement(map, options) of index.js, modelled *)
(* as a state machine over the live map widget, the document and the       *)
(* frames of the toElement calls in progress.                              *)
(***************************************************************************)
EXTENDS Integers, Sequences, FiniteSets, TLC

VARIABLES map, doc, calls, ncalls

vars == <<map, doc, calls, ncalls>>

(***************************************************************************)
(* Bounds of the model.                                                    *)
(***************************************************************************)
\* number of toElement calls made in one behaviour
MaxCalls == 2

\* call frames that exist side by side
Slots == {1, 2}

(***************************************************************************)
(* The DOM.  A node is a record; kids is the sequence of its children in   *)
(* document order.  owner is the identity of the node object for the two   *)
(* nodes the code later calls remove() on (the clone and the cover of call *)
(* number owner); every other node has owner 0.  pix is the pixel content  *)
(* of a 2d canvas, z the inline style.zIndex of the node ("" when unset).  *)
(***************************************************************************)
LayerIds == {"L1", "L2"}

NoFrame == [bounds |-> "blank", layers |-> [l \in LayerIds |-> "none"]]

Node(tag, cls, id, kids) ==
    [tag |-> tag, cls |-> cls, id |-> id, z |-> "", owner |-> 0, pix |-> NoFrame,
     kids |-> kids]

NoNode == Node("none", {}, "", <<>>)

\* a CSS selector of the forms the code uses: 'tag.class' or '.class'
Sel(tag, cls) == [tag |-> tag, cls |-> cls]

Matches(n, sel) == (sel.tag = "" \/ n.tag = sel.tag) /\ sel.cls \in n.cls

RECURSIVE Descendants(_)
\* the set of descendants of a node (the node itself excluded), as nodes
Descendants(n) ==
    UNION { {n.kids[i]} \cup Descendants(n.kids[i]) : i \in 1..Len(n.kids) }

\* element.querySelectorAll(selector), as the set of matching descendants
querySelectorAll(n, sel) == { d \in Descendants(n) : Matches(d, sel) }

\* a removeElements that only looks at the children of the element
removeElementsShallow(n, sel) ==
    [n EXCEPT !.kids = SelectSeq(n.kids, LAMBDA k : ~Matches(k, sel))]

RECURSIVE removeElements(_, _)
\* index.js removeElements: every descendant matching the selector is detached
removeElements(n, sel) ==
    LET kept == SelectSeq(n.kids, LAMBDA k : ~Matches(k, sel))
    IN  [n EXCEPT !.kids = [i \in 1..Len(kept) |-> removeElements(kept[i], sel)]]

RECURSIVE cloneNode(_)
\* Node.cloneNode(true): a deep copy; the copies are new node objects
cloneNode(n) ==
    [n EXCEPT !.owner = 0, !.kids = [i \in 1..Len(n.kids) |-> cloneNode(n.kids[i])]]

HasClass(n, c) == c \in n.cls

RECURSIVE appendToFirstByClass(_, _, _)
\* element.getElementsByClassName(c)[0].append(x): x becomes the last child
\* of the first descendant, in document order, that has class c
appendToFirstByClass(n, c, x) ==
    LET hit(k) == HasClass(k, c) \/ \E d \in Descendants(k) : HasClass(d, c)
        idx == { i \in 1..Len(n.kids) : hit(n.kids[i]) }
    IN  IF idx = {} THEN n
        ELSE LET i == CHOOSE j \in idx : \A m \in idx : j <= m
             IN  IF HasClass(n.kids[i], c)
                   THEN [n EXCEPT !.kids[i].kids = Append(@, x)]
                   ELSE [n EXCEPT !.kids[i] = appendToFirstByClass(@, c, x)]

\* node.append(child) / node.remove() on the children of a node
appendChild(n, x) == [n EXCEPT !.kids = Append(@, x)]

\* a remove() that detaches nothing
removeOwnedNothing(n, o) == n

removeOwned(n, o) == [n EXCEPT !.kids = SelectSeq(@, LAMBDA k : k.owner # o)]

(***************************************************************************)
(* The live map widget (the MapLibre Map the caller passes in), as far as  *)
(* index.js uses it.  bounds is the viewport last fitted, flight the       *)
(* target of a camera animation in progress, frame what the canvas shows   *)
(* (the viewport and layer visibilities of the last render), dirty whether *)
(* a repaint is requested, loaded whether all sources are loaded, attrs    *)
(* the _canvasContextAttributes object and listeners the calls whose       *)
(* once('idle') listener is registered, in registration order.             *)
(***************************************************************************)
Box(b, p) == [box |-> b, pad |-> p]

NoBox == Box("none", 0)

\* the world an operation reads and writes: the widget, the document, the calls
World(m, d, cs) == [map |-> m, doc |-> d, calls |-> cs]

\* map.getBounds()
getBounds(m) == m.bounds

\* map.getLayer(id): whether the style has the layer
getLayer(m, id) == id \in DOMAIN m.layers

\* map.setLayoutProperty(id, 'visibility', v): the style changes and a
\* repaint is requested; nothing is drawn before the next render
setLayoutProperty(m, id, v) == [m EXCEPT !.layers[id] = v, !.dirty = TRUE]

\* map.fitBounds(b, {padding, animate}): with animate false the camera jumps
\* (any animation in progress is stopped); otherwise an animation towards the
\* padded box starts.  cached: whether the tiles of the new viewport are at hand.
fitBounds(m, b, padding, animate, cached) ==
    LET t == Box(b.box, b.pad + padding)
    IN  IF animate
          THEN [m EXCEPT !.flight = t, !.dirty = TRUE]
          ELSE [m EXCEPT !.bounds = t, !.flight = NoBox, !.dirty = TRUE,
                         !.loaded = @ /\ (cached \/ t = m.bounds)]

(***************************************************************************)
(* index.js, the helpers of toElement.                                     *)
(***************************************************************************)
CornerClass(corner) == "maplibregl-ctrl-" \o corner

RECURSIVE removeCorners(_, _)
\* options.hideControlsInCorner.forEach(corner => removeElements(...))
removeCorners(n, corners) ==
    IF corners = <<>> THEN n
    ELSE removeCorners(removeElements(n, Sel("", CornerClass(Head(corners)))),
                       Tail(corners))

RECURSIVE setLayersStopAtUnknown(_, _, _)
\* a loop over the layer ids that ends at the first id the style does not have
setLayersStopAtUnknown(r, ids, v) ==
    IF ids = <<>> THEN r
    ELSE LET id == Head(ids)
         IN  IF getLayer(r.map, id)
               THEN setLayersStopAtUnknown([r EXCEPT !.map = setLayoutProperty(@, id, v)],
                                           Tail(ids), v)
               ELSE [r EXCEPT !.warned = Append(@, id)]

RECURSIVE setLayers(_, _, _)
\* ids.forEach(layerId => getLayer(layerId) ? setLayoutProperty(...) : warn(...))
\* on the record [map, warned]
setLayers(r, ids, v) ==
    IF ids = <<>> THEN r
    ELSE LET id == Head(ids)
             r1 == IF getLayer(r.map, id)
                     THEN [r EXCEPT !.map = setLayoutProperty(@, id, v)]
                     ELSE [r EXCEPT !.warned = Append(@, id)]
         IN  setLayers(r1, Tail(ids), v)

\* the padding of the fit of line 186
Padding == 20

\* index.js manageOverlayVisibility(map, options, virtualClone): the clone
\* after the removals, the widget after the layer and viewport requests, and
\* the layer ids warned about
manageOverlayVisibility(m, options, virtualClone, cached) ==
    LET c1 == IF options.hideAllControls
                THEN removeElements(virtualClone, Sel("", "maplibregl-control-container"))
                ELSE virtualClone
        c2 == removeCorners(c1, options.hideControlsInCorner)
        c3 == IF options.hideMarkers
                THEN removeElements(c2, Sel("", "maplibregl-marker")) ELSE c2
        c4 == IF options.hidePopups
                THEN removeElements(c3, Sel("", "maplibregl-popup")) ELSE c3
        r1 == setLayers([map |-> m, warned |-> <<>>], options.hideVisibleLayers, "none")
        r2 == setLayers(r1, options.showHiddenLayers, "visible")
        m3 == IF options.bbox # NoBox
                THEN fitBounds(r2.map, options.bbox, Padding, TRUE, cached) ELSE r2.map
    IN  [map |-> m3, virtualClone |-> c4, warned |-> r2.warned]

\* index.js copyCanvas(canvas): a new 2d canvas holding what the source
\* canvas shows at the moment of the drawImage
copyCanvas(pixels) == [Node("canvas", {}, "", <<>>) EXCEPT !.pix = pixels]

\* a switch that has the png case only
imgFuncPngOnly(format) == "toPng"

\* the switch on options.format
imgFunc(format) ==
    CASE format = "jpeg" -> "toJpeg"
      [] format = "svg" -> "toSvg"
      [] format = "canvas" -> "toCanvas"
      [] OTHER -> "toPng"

(***************************************************************************)
(* A call frame: the locals of one toElement call and the state of the     *)
(* promise it returned.  pc is where the call stands: "none" (no call),    *)
(* "awaitCover" (suspended at the await of line 49), "awaitIdle" (listener *)
(* registered, line 84), "awaitRaster" (imgFunc called, line 111),         *)
(* "resolved", "rejected", or "threw" for a call expression that threw     *)
(* before any function was entered; entry is the name the caller called;  *)
(* idleAtRedraw is whether the widget fired 'idle' inside the redraw() of  *)
(* line 74, before the listener of line 84 was there; during is the       *)
(* number of a call that was in progress when this one was made, 0 when    *)
(* there was none; heard is whether the widget has called the 'idle'       *)
(* listener of the call, and log the operations the listener has done, in  *)
(* the order it did them; uncovered is the set of the lines at which the   *)
(* call changed the viewport or a layer visibility of the widget while no  *)
(* cover image of the call was in the document.                            *)
(* pre records what the call found when it                                 *)
(* started; raster the rasterizer chosen, the clone and the options handed *)
(* to it (the caller's htmlToImageOptions, or a new object, and whether    *)
(* skipFonts was set on it), how many times the rasterizer was called on   *)
(* the clone and how that rasterization ended.                             *)
(***************************************************************************)
NoRaster ==
    [fn |-> "", node |-> NoNode, given |-> "undefined", skipFonts |-> FALSE,
     invoked |-> 0, outcome |-> "none"]

NoUrl == [fn |-> "", seq |-> 0]

\* getComputedStyle(mapElement).zIndex: the inline value when there is one,
\* else the value the style sheets give
ComputedZIndex(d) == IF d.container.z # "" THEN d.container.z ELSE d.cssZIndex

\* document.getElementById(id)
getElementById(d, id) == IF id \in d.ids THEN id ELSE "null"

\* whether the cover image of call c is in the document
Covered(w, c) == \E i \in 1..Len(w.doc.covers) : w.doc.covers[i] = w.calls[c].seq

\* the lines of the 'idle' listener that change the viewport or a layer
\* visibility of the widget, for the options of a call
ListenerEdits(m, options) ==
    {89} \cup (IF options.bbox # NoBox THEN {186} ELSE {})
         \cup (IF \E i \in 1..Len(options.hideVisibleLayers) :
                      getLayer(m, options.hideVisibleLayers[i]) THEN {168} ELSE {})
         \cup (IF \E i \in 1..Len(options.showHiddenLayers) :
                      getLayer(m, options.showHiddenLayers[i]) THEN {178} ELSE {})

\* the 'idle' listener of toElement with the viewport restored before the
\* overlay edits instead of after them
onIdleRestoreFirst(w, c, cached) ==
    LET f == w.calls[c]
        m0 == fitBounds(w.map, f.originalBounds, 0, FALSE, cached)
        r == manageOverlayVisibility(m0, f.options, f.virtualClone, cached)
        newCanvas == copyCanvas(r.map.frame)
        clone == appendToFirstByClass(r.virtualClone, "maplibregl-canvas-container",
                                      newCanvas)
        fn == imgFunc(f.options.format)
    IN  World(r.map,
              [w.doc EXCEPT !.container = appendChild(@, clone)],
              [w.calls EXCEPT ![c] =
                  [f EXCEPT !.virtualClone = clone,
                            !.uncovered = @ \cup (IF Covered(w, c) THEN {}
                                                  ELSE ListenerEdits(w.map, f.options)),
                            !.log = @ \o <<"fitBounds", "manageOverlayVisibility",
                                           "copyCanvas", "append", "imgFunc">>,
                            !.warned = @ \o r.warned,
                            !.raster = [f.raster EXCEPT !.fn = fn, !.node = clone,
                                                        !.invoked = @ + 1,
                                                        !.outcome = "pending"],
                            !.pc = "awaitRaster"]])

\* a listener that hands the container itself to manageOverlayVisibility:
\* the removals are made in the live container and not in the clone
onIdleEditsLive(w, c, cached) ==
    LET f == w.calls[c]
        r == manageOverlayVisibility(w.map, f.options, w.doc.container, cached)
        newCanvas == copyCanvas(r.map.frame)
        m2 == fitBounds(r.map, f.originalBounds, 0, FALSE, cached)
        clone == appendToFirstByClass(f.virtualClone, "maplibregl-canvas-container",
                                      newCanvas)
        fn == imgFunc(f.options.format)
    IN  World(m2,
              [w.doc EXCEPT !.container = appendChild(r.virtualClone, clone)],
              [w.calls EXCEPT ![c] =
                  [f EXCEPT !.virtualClone = clone,
                            !.uncovered = @ \cup (IF Covered(w, c) THEN {}
                                                  ELSE ListenerEdits(w.map, f.options)),
                            !.log = @ \o <<"manageOverlayVisibility", "copyCanvas",
                                           "fitBounds", "append", "imgFunc">>,
                            !.warned = @ \o r.warned,
                            !.raster = [f.raster EXCEPT !.fn = fn, !.node = clone,
                                                        !.invoked = @ + 1,
                                                        !.outcome = "pending"],
                            !.pc = "awaitRaster"]])

\* index.js lines 84-111, the 'idle' listener of call c: overlay edits, pixel
\* copy, viewport restored, clone attached, rasterizer called
onIdle(w, c, cached) ==
    LET f == w.calls[c]
        r == manageOverlayVisibility(w.map, f.options, f.virtualClone, cached)
        newCanvas == copyCanvas(r.map.frame)
        m2 == fitBounds(r.map, f.originalBounds, 0, FALSE, cached)
        clone == appendToFirstByClass(r.virtualClone, "maplibregl-canvas-container",
                                      newCanvas)
        fn == imgFunc(f.options.format)
    IN  World(m2,
              [w.doc EXCEPT !.container = appendChild(@, clone)],
              [w.calls EXCEPT ![c] =
                  [f EXCEPT !.virtualClone = clone,
                            !.uncovered = @ \cup (IF Covered(w, c) THEN {}
                                                  ELSE ListenerEdits(w.map, f.options)),
                            !.log = @ \o <<"manageOverlayVisibility", "copyCanvas",
                                           "fitBounds", "append", "imgFunc">>,
                            !.warned = @ \o r.warned,
                            !.raster = [f.raster EXCEPT !.fn = fn, !.node = clone,
                                                        !.invoked = @ + 1,
                                                        !.outcome = "pending"],
                            !.pc = "awaitRaster"]])

RECURSIVE runListeners(_, _, _)
runListeners(w, ls, cached) ==
    IF ls = <<>> THEN w
    ELSE runListeners(onIdle([w EXCEPT !.calls[Head(ls)].heard = TRUE], Head(ls), cached),
                      Tail(ls), cached)

\* the widget fires 'idle': the once-listeners are unregistered and run in
\* registration order
fireIdle(w, cached) ==
    runListeners([w EXCEPT !.map.listeners = <<>>], w.map.listeners, cached)

\* the widget renders a frame: a camera animation in progress arrives, the
\* canvas shows the current viewport and layers, and 'idle' is fired when
\* every source is loaded
render(w, cached) ==
    LET m == w.map
        m1 == IF m.flight # NoBox
                THEN [m EXCEPT !.bounds = m.flight, !.flight = NoBox] ELSE m
        m2 == [m1 EXCEPT !.frame = [bounds |-> m1.bounds, layers |-> m1.layers],
                         !.dirty = FALSE]
        w2 == [w EXCEPT !.map = m2]
    IN  IF m2.loaded THEN fireIdle(w2, cached) ELSE w2

\* map.redraw(): a pending frame request is dropped and a frame is rendered
\* synchronously
redraw(w, cached) == render(w, cached)

\* options.coverEdits === false ? false : true
CoverEdits(options) == IF options.coverEdits = "false" THEN FALSE ELSE TRUE

\* the options of a call that names the target image and nothing else
BaseOptions ==
    [targetImageId |-> "image", hideAllControls |-> FALSE,
     hideControlsInCorner |-> <<>>, hideMarkers |-> FALSE, hidePopups |-> FALSE,
     hideVisibleLayers |-> <<>>, showHiddenLayers |-> <<>>, bbox |-> NoBox,
     coverEdits |-> "undefined", format |-> "undefined",
     htmlToImageOptions |-> "undefined"]

NoPre ==
    [bounds |-> NoBox, layers |-> [l \in LayerIds |-> "none"], zIndex |-> "",
     targetSrc |-> NoUrl, kids |-> <<>>, attrs |-> FALSE]

NoCall ==
    [pc |-> "none", seq |-> 0, options |-> BaseOptions, pre |-> NoPre,
     originalBounds |-> NoBox, targetImageElement |-> "null",
     virtualClone |-> NoNode, mapZIndex |-> "", preserveDrawingBuffer |-> "undefined",
     photocover |-> FALSE, cover |-> "none", raster |-> NoRaster, err |-> "", warned |-> <<>>,
     assigned |-> 0, entry |-> "toElement", idleAtRedraw |-> FALSE, during |-> 0,
     heard |-> FALSE, log |-> <<>>, uncovered |-> {}]

\* navigator.userAgent.toLowerCase().indexOf('firefox') > -1
isFirefox(d) == d.userAgent = "firefox"

\* lines 62-111 without the wait for 'idle': the body of the listener is run
\* right after the redraw
toElementPrepareNoWait(w, c, cached) ==
    LET f == w.calls[c]
        o == f.options
        d1 == IF f.mapZIndex \in STRING
                THEN [w.doc EXCEPT !.container.z = "0"] ELSE w.doc
        clone == removeElements(
                     [f.virtualClone EXCEPT !.z = "-9999", !.id = "virtual-map-container"],
                     Sel("canvas", "maplibregl-canvas"))
        m1 == IF o.bbox # NoBox THEN fitBounds(w.map, o.bbox, 0, FALSE, cached) ELSE w.map
        w2 == redraw([w EXCEPT !.map = m1, !.doc = d1, !.calls[c].virtualClone = clone],
                     cached)
    IN  onIdle([w2 EXCEPT !.calls[c].idleAtRedraw = w2.map.loaded,
                          !.calls[c].uncovered = @ \cup (IF o.bbox # NoBox /\ ~Covered(w, c)
                                                           THEN {72} ELSE {}),
                          !.calls[c].raster.given = o.htmlToImageOptions,
                          !.calls[c].raster.skipFonts = isFirefox(w.doc)], c, cached)

\* index.js lines 62-84: z-index of the container set to 0, clone prepared,
\* viewport fitted to the bbox, redraw, the options of the rasterizer made
\* (skipFonts set on them in Firefox), 'idle' listener registered
toElementPrepare(w, c, cached) ==
    LET f == w.calls[c]
        o == f.options
        d1 == IF f.mapZIndex \in STRING
                THEN [w.doc EXCEPT !.container.z = "0"] ELSE w.doc
        clone == removeElements(
                     [f.virtualClone EXCEPT !.z = "-9999", !.id = "virtual-map-container"],
                     Sel("canvas", "maplibregl-canvas"))
        m1 == IF o.bbox # NoBox THEN fitBounds(w.map, o.bbox, 0, FALSE, cached) ELSE w.map
        w2 == redraw([w EXCEPT !.map = m1, !.doc = d1, !.calls[c].virtualClone = clone],
                     cached)
    IN  [w2 EXCEPT !.calls[c].idleAtRedraw = w2.map.loaded,
                   !.calls[c].uncovered = @ \cup (IF o.bbox # NoBox /\ ~Covered(w, c)
                                                    THEN {72} ELSE {}),
                   !.calls[c].raster.given = o.htmlToImageOptions,
                   !.calls[c].raster.skipFonts = isFirefox(w.doc),
                   !.map.listeners = Append(@, c),
                   !.calls[c].pc = "awaitIdle"]

\* a continuation that puts up the cover image after lines 62-84
toElementAfterCoverLate(w, c, cached) ==
    LET f == w.calls[c]
    IN  [toElementPrepare(w, c, cached) EXCEPT !.doc.covers = <<f.seq>> \o @,
                                               !.calls[c].photocover = TRUE,
                                               !.calls[c].cover = "ok"]

\* index.js lines 50-84: the continuation after the cover rasterization: the
\* cover image is put in front of the container, then lines 62-84
toElementAfterCover(w, c, cached) ==
    LET f == w.calls[c]
    IN  toElementPrepare([w EXCEPT !.doc.covers = <<f.seq>> \o @,
                                   !.calls[c].photocover = TRUE,
                                   !.calls[c].cover = "ok"], c, cached)

\* index.js lines 24-49 (and on to line 84 when coverEdits is false): call
\* number seq, made with options, in frame c
toElement(w, c, seq, options, cached) ==
    LET m == w.map
        d == w.doc
        pdb == IF m.attrs.present THEN m.attrs.preserveDrawingBuffer ELSE "undefined"
        f == [NoCall EXCEPT
                !.seq = seq, !.options = options,
                !.pre = [bounds |-> m.bounds, layers |-> m.layers,
                         zIndex |-> ComputedZIndex(d), targetSrc |-> d.targetSrc,
                         kids |-> d.container.kids, attrs |-> m.attrs.present],
                !.originalBounds = getBounds(m),
                !.targetImageElement = getElementById(d, options.targetImageId),
                !.virtualClone = [cloneNode(d.container) EXCEPT !.owner = seq],
                !.mapZIndex = ComputedZIndex(d),
                !.preserveDrawingBuffer = pdb]
        w0 == [w EXCEPT !.calls[c] = f, !.doc.sized = TRUE]
    IN  IF CoverEdits(options)
          THEN LET w1 == IF pdb # "true"
                           THEN redraw([w0 EXCEPT
                                          !.map.attrs = [present |-> TRUE,
                                                         preserveDrawingBuffer |-> "true"],
                                          !.calls[c].warned = <<"preserveDrawingBuffer">>],
                                       cached)
                           ELSE w0
               IN  [w1 EXCEPT !.calls[c].pc = "awaitCover", !.calls[c].cover = "pending"]
          ELSE toElementPrepare(w0, c, cached)

\* a rejection handler that logs the error and does not reject
catchLogOnly(w, c, err) == [w EXCEPT !.calls[c].err = err]

\* the rejection handler, index.js lines 122-125: console.error, reject(err)
catch(w, c, err) == [w EXCEPT !.calls[c].pc = "rejected", !.calls[c].err = err]

\* a fulfilment handler that skips the assignment when there is no target
thenThrowsAtGuarded(w, c) == IF ~w.map.attrs.present THEN 116 ELSE 0

\* the line of the fulfilment handler that throws a TypeError, 0 when none
\* does: line 113 assigns to a property of null when the target element was
\* not found, line 116 to a property of undefined when the widget has no
\* _canvasContextAttributes
thenThrowsAt(w, c) ==
    IF w.calls[c].targetImageElement = "null" THEN 113
    ELSE IF ~w.map.attrs.present THEN 116
    ELSE 0

\* a handler that forgets to put the z-index back
restoreZIndexForgotten(n, mapZIndex) == n

\* index.js line 114: mapElement.style.zIndex = mapZIndex
restoreZIndex(n, mapZIndex) == [n EXCEPT !.z = mapZIndex]

\* index.js lines 112-121, the fulfilment handler of the rasterization, with
\* the catch of lines 122-125 that follows it in the chain: the statements
\* before the one that throws take effect, and the promise is rejected with
\* the TypeError
then(w, c) ==
    LET f == w.calls[c]
        at == thenThrowsAt(w, c)
        dataUrl == [fn |-> f.raster.fn, seq |-> f.seq]
        \* lines 113-115
        w1 == [w EXCEPT !.doc.targetSrc = dataUrl,
                        !.doc.container = removeOwned(restoreZIndex(@, f.mapZIndex), f.seq),
                        !.calls[c].assigned = @ + 1]
        \* lines 116-120
        w2 == [w1 EXCEPT !.map.attrs.preserveDrawingBuffer = f.preserveDrawingBuffer,
                         !.doc.covers = IF f.photocover
                                          THEN SelectSeq(@, LAMBDA x : x # f.seq) ELSE @,
                         !.calls[c].pc = "resolved"]
    IN  CASE at = 113 -> catch(w, c, "TypeError")
          [] at = 116 -> catch(w1, c, "TypeError")
          [] OTHER -> w2

(***************************************************************************)
(* The inputs: the options a caller passes and the widgets and documents   *)
(* a call can find.                                                        *)
(***************************************************************************)
\* options that set one thing
Features ==
    { BaseOptions,
      [BaseOptions EXCEPT !.targetImageId = "nosuch"],
      [BaseOptions EXCEPT !.targetImageId = "undefined"],
      [BaseOptions EXCEPT !.hideAllControls = TRUE],
      [BaseOptions EXCEPT !.hideControlsInCorner = <<"top-left">>],
      [BaseOptions EXCEPT !.hideControlsInCorner = <<"top-left", "bottom-right">>],
      [BaseOptions EXCEPT !.hideMarkers = TRUE],
      [BaseOptions EXCEPT !.hidePopups = TRUE],
      [BaseOptions EXCEPT !.hideVisibleLayers = <<"L1">>],
      [BaseOptions EXCEPT !.hideVisibleLayers = <<"Lx", "L1">>],
      [BaseOptions EXCEPT !.showHiddenLayers = <<"L2">>],
      [BaseOptions EXCEPT !.showHiddenLayers = <<"Lx", "L2">>],
      [BaseOptions EXCEPT !.bbox = Box("bbox", 0)],
      [BaseOptions EXCEPT !.coverEdits = "false"],
      [BaseOptions EXCEPT !.coverEdits = "true"],
      [BaseOptions EXCEPT !.htmlToImageOptions = "given"] }

Formats ==
    { [BaseOptions EXCEPT !.format = f] : f \in {"png", "jpeg", "svg", "canvas", "gif"} }

\* the options that set what a sets and, elsewhere, what b sets
Combine(a, b) ==
    [k \in DOMAIN BaseOptions |-> IF a[k] # BaseOptions[k] THEN a[k] ELSE b[k]]

\* options that set several things
Combined ==
    { [BaseOptions EXCEPT !.hideAllControls = TRUE, !.hideMarkers = TRUE,
                          !.hidePopups = TRUE,
                          !.hideControlsInCorner = <<"top-right">>],
      [BaseOptions EXCEPT !.hideMarkers = TRUE, !.hideVisibleLayers = <<"L1">>,
                          !.showHiddenLayers = <<"L2">>, !.bbox = Box("bbox", 0)],
      [BaseOptions EXCEPT !.hideVisibleLayers = <<"L1", "L2">>,
                          !.showHiddenLayers = <<"L1">>],
      [BaseOptions EXCEPT !.coverEdits = "false", !.bbox = Box("bbox", 0)],
      [BaseOptions EXCEPT !.coverEdits = "false", !.targetImageId = "nosuch"],
      [BaseOptions EXCEPT !.coverEdits = "false", !.hideVisibleLayers = <<"L1">>],
      [BaseOptions EXCEPT !.coverEdits = "false", !.hidePopups = TRUE,
                          !.format = "jpeg"] }

\* the options of the model
OptionSet == Features \cup Formats \cup Combined

Corner(name) ==
    Node("div", {"maplibregl-ctrl-" \o name}, "",
         <<Node("div", {"maplibregl-ctrl", "maplibregl-ctrl-group"}, "", <<>>)>>)

Canvas == Node("canvas", {"maplibregl-canvas"}, "", <<>>)

Marker == Node("div", {"maplibregl-marker"}, "", <<>>)

Popup ==
    Node("div", {"maplibregl-popup"}, "",
         <<Node("div", {"maplibregl-popup-content"}, "", <<>>)>>)

ControlContainer ==
    Node("div", {"maplibregl-control-container"}, "",
         <<Corner("top-left"), Corner("top-right"),
           Corner("bottom-left"), Corner("bottom-right")>>)

AttrsAbsent == [present |-> FALSE, preserveDrawingBuffer |-> "undefined"]

AttrsOf(v) == [present |-> TRUE, preserveDrawingBuffer |-> v]

Bare ==
    Node("div", {"maplibregl-map"}, "map",
         <<Node("div", {"maplibregl-canvas-container"}, "", <<Canvas>>),
           ControlContainer>>)

Rich ==
    Node("div", {"maplibregl-map"}, "map",
         <<Node("div", {"maplibregl-canvas-container"}, "", <<Canvas, Marker, Marker>>),
           ControlContainer, Popup>>)

InitLayers == [l \in LayerIds |-> IF l = "L1" THEN "visible" ELSE "none"]

\* the widgets and documents a first call can find: the container (without
\* overlays, or with two markers and a popup), its inline z-index, the z-index
\* the style sheets give it, _canvasContextAttributes, and whether the sources
\* are loaded, and the browser
Widgets ==
    { [container |-> Rich, z |-> "", css |-> "auto", attrs |-> AttrsOf("false"),
       loaded |-> FALSE, userAgent |-> "chrome"],
      [container |-> Rich, z |-> "", css |-> "auto", attrs |-> AttrsOf("false"),
       loaded |-> TRUE, userAgent |-> "chrome"],
      [container |-> Bare, z |-> "", css |-> "auto", attrs |-> AttrsOf("false"),
       loaded |-> FALSE, userAgent |-> "firefox"],
      [container |-> Rich, z |-> "auto", css |-> "auto", attrs |-> AttrsOf("true"),
       loaded |-> FALSE, userAgent |-> "chrome"],
      [container |-> Rich, z |-> "5", css |-> "auto", attrs |-> AttrsOf("true"),
       loaded |-> TRUE, userAgent |-> "chrome"],
      [container |-> Rich, z |-> "", css |-> "2", attrs |-> AttrsAbsent,
       loaded |-> FALSE, userAgent |-> "chrome"],
      [container |-> Bare, z |-> "", css |-> "auto", attrs |-> AttrsAbsent,
       loaded |-> TRUE, userAgent |-> "chrome"] }

Init ==
    /\ \E x \in Widgets :
         /\ map = [bounds |-> Box("b0", 0), flight |-> NoBox, layers |-> InitLayers,
                   frame |-> [bounds |-> Box("b0", 0), layers |-> InitLayers],
                   dirty |-> FALSE, loaded |-> x.loaded, attrs |-> x.attrs,
                   listeners |-> <<>>]
         /\ doc = [container |-> [x.container EXCEPT !.z = x.z], cssZIndex |-> x.css,
                   covers |-> <<>>, ids |-> {"image"}, targetSrc |-> NoUrl,
                   sized |-> FALSE, userAgent |-> x.userAgent]
    /\ calls = [c \in Slots |-> NoCall]
    /\ ncalls = 0

(***************************************************************************)
(* The steps.                                                              *)
(***************************************************************************)
InProgress(c) == calls[c].pc \in {"awaitCover", "awaitIdle", "awaitRaster"}

Goto(w) == map' = w.map /\ doc' = w.doc /\ calls' = w.calls

Here == World(map, doc, calls)

\* whether the tiles of a viewport the step moves to are at hand: a choice of
\* the environment in the steps that can move the viewport
Cached(moves) == IF moves THEN BOOLEAN ELSE {TRUE}

\* the caller calls toElement(map, options) while no other call is in
\* progress; the frames of the calls before it are forgotten
Call(c) ==
    /\ ncalls < MaxCalls
    /\ \A d \in Slots : ~InProgress(d)
    /\ c = (ncalls % Cardinality(Slots)) + 1
    /\ \E options \in OptionSet : \E cached \in Cached(options.bbox # NoBox) :
         Goto(toElement([Here EXCEPT !.calls = [d \in Slots |-> NoCall]], c, ncalls + 1,
                        options, cached))
    /\ ncalls' = ncalls + 1

\* the rasterization of the cover (line 49) succeeds
CoverDone(c) ==
    /\ calls[c].pc = "awaitCover"
    /\ \E cached \in Cached(calls[c].options.bbox # NoBox) :
         Goto(toElementAfterCover(Here, c, cached))
    /\ UNCHANGED ncalls

\* the rasterization of the cover fails: the await throws and the promise of
\* the async function is rejected with the error
CoverFailed(c) ==
    /\ calls[c].pc = "awaitCover"
    /\ calls' = [calls EXCEPT ![c].pc = "rejected", ![c].err = "RasterError",
                              ![c].cover = "failed"]
    /\ UNCHANGED <<map, doc, ncalls>>

\* the sources of the widget finish loading; a repaint is requested
SourcesLoaded ==
    /\ ~map.loaded
    /\ map' = [map EXCEPT !.loaded = TRUE, !.dirty = TRUE]
    /\ UNCHANGED <<doc, calls, ncalls>>

\* the widget renders the frame it was asked for
Frame ==
    /\ map.dirty
    /\ \E cached \in Cached(map.loaded /\ map.listeners # <<>>) :
         Goto(render(Here, cached))
    /\ UNCHANGED ncalls

\* the rasterization of the clone succeeds
RasterDone(c) ==
    /\ calls[c].pc = "awaitRaster"
    /\ Goto(then([Here EXCEPT !.calls[c].raster.outcome = "ok"], c))
    /\ UNCHANGED ncalls

\* the rasterization of the clone fails
RasterFailed(c) ==
    /\ calls[c].pc = "awaitRaster"
    /\ Goto(catch([Here EXCEPT !.calls[c].raster.outcome = "failed"], c, "RasterError"))
    /\ UNCHANGED ncalls

Next ==
    \/ \E c \in Slots : Call(c)
    \/ \E c \in Slots : CoverDone(c)
    \/ \E c \in Slots : CoverFailed(c)
    \/ SourcesLoaded
    \/ Frame
    \/ \E c \in Slots : RasterDone(c)
    \/ \E c \in Slots : RasterFailed(c)

Spec == Init /\ [][Next]_vars

(***************************************************************************)
(* The properties.  Under Spec a frame that is not "none" belongs to the   *)
(* last call made, so pre is the state right before that call.             *)
(***************************************************************************)
Resolved(c) == calls[c].pc = "resolved"

Rejected(c) == calls[c].pc = "rejected"

\* the rasterizer has been called on the clone of call c
Handed(c) == calls[c].raster.fn # ""

\* the container as call c found it
PreContainer(c) == [NoNode EXCEPT !.kids = calls[c].pre.kids]

\* the pixel copy in the subtree handed to the rasterizer: the last child of
\* the clone's canvas container
NewCanvasOf(n) == LET cc == n.kids[1] IN cc.kids[Len(cc.kids)]

Range(q) == { q[i] : i \in 1..Len(q) }

\* C1: once the promise of a call has resolved, the viewport last requested
\* of the live widget is the one getBounds() returned when the call started,
\* and no camera animation is left running.
C1_ViewportRestored ==
    \A c \in Slots :
        Resolved(c) => map.bounds = calls[c].pre.bounds /\ map.flight = NoBox

\* a call with a bbox has resolved, and one without the cover has
C1_Witness ==
    \E c \in Slots :
        Resolved(c) /\ calls[c].options.bbox # NoBox /\ ~CoverEdits(calls[c].options)

\* C2: after a call has resolved every layer of the live widget has the
\* visibility it had before the call.
C2_LayersUnchanged ==
    \A c \in Slots : Resolved(c) => map.layers = calls[c].pre.layers

\* C3: for a layer named in hideVisibleLayers (and not in showHiddenLayers)
\* that was visible before the call, the pixel copy handed to the rasterizer
\* comes from a frame rendered with the layer hidden; for a layer named in
\* showHiddenLayers that was hidden, from a frame rendered with it shown.
C3_CopyShowsOverrides ==
    \A c \in Slots :
        Handed(c) =>
            LET f == calls[c]
                pix == NewCanvasOf(f.raster.node).pix
            IN  /\ \A l \in (Range(f.options.hideVisibleLayers) \cap LayerIds)
                              \ Range(f.options.showHiddenLayers) :
                       f.pre.layers[l] = "visible" => pix.layers[l] = "none"
                /\ \A l \in Range(f.options.showHiddenLayers) \cap LayerIds :
                       f.pre.layers[l] = "none" => pix.layers[l] = "visible"

\* C4: once a call has settled, its clone is not a child of the container and
\* its cover is not in the container's parent; and no call clones a subtree
\* that holds the clone of an earlier call.
C4_NoTransientLeft ==
    \A c \in Slots :
        /\ (Resolved(c) \/ Rejected(c)) =>
               /\ \A i \in 1..Len(doc.container.kids) :
                      doc.container.kids[i].owner # calls[c].seq
               /\ calls[c].seq \notin Range(doc.covers)
        /\ \A d \in Descendants(calls[c].virtualClone) : d.id # "virtual-map-container"

C6_HiddenAbsent ==
    \A c \in Slots :
        Handed(c) =>
            LET o == calls[c].options
                n == calls[c].raster.node
                none(cls) == cls \notin n.cls /\ querySelectorAll(n, Sel("", cls)) = {}
            IN  /\ o.hideAllControls => none("maplibregl-control-container")
                /\ \A i \in 1..Len(o.hideControlsInCorner) :
                       none(CornerClass(o.hideControlsInCorner[i]))
                /\ o.hideMarkers => none("maplibregl-marker")
                /\ o.hidePopups => none("maplibregl-popup")

\* a clone was handed over with hideMarkers on, of a container with markers
C6_Witness ==
    \E c \in Slots :
        /\ Handed(c)
        /\ calls[c].options.hideMarkers
        /\ \E d \in Descendants(PreContainer(c)) : "maplibregl-marker" \in d.cls

\* C7: if the promise rejects, the source of the target element is the one it
\* had before the call (it was not assigned); if it resolves, the call has
\* assigned it exactly once.
C7_TargetOnSettle ==
    \A c \in Slots :
        /\ Rejected(c) => doc.targetSrc = calls[c].pre.targetSrc /\ calls[c].assigned = 0
        /\ Resolved(c) => calls[c].assigned = 1

\* C8: when the target element is not found and the rasterization of the
\* clone has succeeded, the promise is rejected with the TypeError; such a
\* call never resolves.
C8_MissingTargetRejects ==
    \A c \in Slots :
        calls[c].pc # "none" /\ calls[c].targetImageElement = "null" =>
            /\ ~Resolved(c)
            /\ calls[c].raster.outcome = "ok" =>
                   Rejected(c) /\ calls[c].err = "TypeError"

\* the rasterization succeeded for a call whose targetImageId names nothing,
\* and for one that has no targetImageId
C8_Witness ==
    \E c \in Slots :
        /\ calls[c].raster.outcome = "ok"
        /\ calls[c].targetImageElement = "null"
        /\ calls[c].options.targetImageId \in {"nosuch", "undefined"}

\* a rasterization step of the call has failed
RasterFailure(c) == calls[c].cover = "failed" \/ calls[c].raster.outcome = "failed"

\* the fulfilment handler of the call has thrown: there was no target, or the
\* widget had no _canvasContextAttributes (none before the call, and none
\* made by it since it put up no cover)
HandlerFault(c) ==
    /\ calls[c].raster.outcome = "ok"
    /\ \/ calls[c].targetImageElement = "null"
       \/ ~calls[c].pre.attrs /\ ~CoverEdits(calls[c].options)

CallAgain(c) ==
    /\ ncalls < MaxCalls
    /\ \A d \in Slots : ~InProgress(d)
    /\ c = (ncalls % Cardinality(Slots)) + 1
    /\ \E d \in Slots \ {c} :
         /\ calls[d].seq = ncalls
         /\ Resolved(d)
         /\ \E cached \in Cached(calls[d].options.bbox # NoBox) :
              Goto(toElement([Here EXCEPT !.calls[c] = NoCall], c, ncalls + 1,
                             calls[d].options, cached))
    /\ ncalls' = ncalls + 1

NextRepeat ==
    \/ Next
    \/ \E c \in Slots : CallAgain(c)

SpecRepeat == Init /\ [][NextRepeat]_vars

\* C10: when a call has resolved and the next call, made with the same
\* options, has resolved too, the two calls handed the rasterizer the same
\* subtree, pixel copy included, and used the same rasterizer.
C10_RepeatEquivalent ==
    \A c, d \in Slots :
        ( /\ Resolved(c) /\ Resolved(d)
          /\ calls[d].seq = calls[c].seq + 1
          /\ calls[d].options = calls[c].options )
        => /\ cloneNode(calls[d].raster.node) = cloneNode(calls[c].raster.node)
           /\ calls[d].raster.fn = calls[c].raster.fn

(***************************************************************************)
(* The rasterizer of the clone.                                            *)
(***************************************************************************)
\* C11: the rasterizer called on the clone is toJpeg for format 'jpeg', toSvg
\* for 'svg', toCanvas for 'canvas' and toPng for 'png', no format or any
\* other value; it is called at most once per call, once the call has reached
\* line 111, on the clone of that call and with the caller's
\* htmlToImageOptions.
C11_RasterizerByFormat ==
    \A c \in Slots :
        LET f == calls[c]
            fmt == f.options.format
        IN  /\ f.raster.invoked = (IF f.pc \in {"awaitRaster", "resolved"}
                                      \/ f.raster.outcome # "none" THEN 1 ELSE 0)
            /\ Handed(c) <=> f.raster.invoked = 1
            /\ Handed(c) =>
                 /\ fmt = "jpeg" => f.raster.fn = "toJpeg"
                 /\ fmt = "svg" => f.raster.fn = "toSvg"
                 /\ fmt = "canvas" => f.raster.fn = "toCanvas"
                 /\ fmt \in {"png", "undefined", "gif"} => f.raster.fn = "toPng"
                 /\ f.raster.node.owner = f.seq
                 /\ f.raster.node.id = "virtual-map-container"
                 /\ f.raster.given = f.options.htmlToImageOptions

\* the clone of a call with format 'svg' was rasterized and the call resolved
C11_Witness ==
    \E c \in Slots :
        Resolved(c) /\ calls[c].options.format = "svg" /\ calls[c].raster.fn = "toSvg"

(***************************************************************************)
(* Layer ids the style does not have.                                      *)
(***************************************************************************)
Known(ids) == SelectSeq(ids, LAMBDA id : id \in LayerIds)

Unknown(ids) == SelectSeq(ids, LAMBDA id : id \notin LayerIds)

\* the options without the layer ids the style does not have
WithoutUnknownLayers(o) ==
    [o EXCEPT !.hideVisibleLayers = Known(@), !.showHiddenLayers = Known(@)]

\* C12: a layer id of hideVisibleLayers or showHiddenLayers that the widget
\* does not have is warned about and nothing else: the style gets no entry
\* for it, the ids of both lists that the widget has are given their
\* visibility, and the idle listener leaves the widget, the document and the
\* call (the clone and the rasterizer called included) as it would with the
\* lists without that id, so the call goes on to line 111 and settles alike.
C12_UnknownLayerOnlyWarns ==
    \A c \in Slots :
        LET f == calls[c]
            o == f.options
        IN  /\ DOMAIN map.layers = LayerIds
            /\ Handed(c) =>
                 /\ \A id \in Range(Unknown(o.hideVisibleLayers \o o.showHiddenLayers)) :
                        id \in Range(f.warned)
                 /\ \A id \in Range(Known(o.showHiddenLayers)) : map.layers[id] = "visible"
                 /\ \A id \in Range(Known(o.hideVisibleLayers))
                                \ Range(o.showHiddenLayers) : map.layers[id] = "none"
            /\ f.pc = "awaitIdle" =>
                 \A cached \in BOOLEAN :
                     LET a == onIdle(Here, c, cached)
                         b == onIdle([Here EXCEPT !.calls[c].options =
                                                      WithoutUnknownLayers(o)], c, cached)
                     IN  /\ a.map = b.map
                         /\ a.doc = b.doc
                         /\ a.calls[c].pc = "awaitRaster"
                         /\ a.calls[c].warned =
                                b.calls[c].warned
                                    \o Unknown(o.hideVisibleLayers)
                                    \o Unknown(o.showHiddenLayers)
                         /\ [a.calls[c] EXCEPT !.options = b.calls[c].options,
                                               !.warned = b.calls[c].warned] = b.calls[c]

\* a call whose hideVisibleLayers names a layer the widget does not have,
\* then L1, has resolved: the id was warned about and L1 is hidden
C12_Witness ==
    \E c \in Slots :
        /\ Resolved(c)
        /\ calls[c].options.hideVisibleLayers = <<"Lx", "L1">>
        /\ "Lx" \in Range(calls[c].warned)
        /\ map.layers["L1"] = "none"

(***************************************************************************)
(* The entry points.  The README tells the caller to import toPng and to   *)
(* call toPng(map, options).                                               *)
(***************************************************************************)
\* the names index.js exports
Exports == {"toElement"}

\* import { name } from the library: the binding the caller gets
Import(name) == IF name \in Exports THEN name ELSE "undefined"

\* the caller follows the README: toPng(map, options).  The binding is
\* undefined, the call expression throws a TypeError and no statement of the
\* library runs: the widget and the document are not touched
CallToPng(c) ==
    /\ ncalls < MaxCalls
    /\ \A d \in Slots : ~InProgress(d)
    /\ c = (ncalls % Cardinality(Slots)) + 1
    /\ Import("toPng") = "undefined"
    /\ \E options \in Formats :
         calls' = [d \in Slots |->
                     IF d = c
                       THEN [NoCall EXCEPT !.pc = "threw", !.seq = ncalls + 1,
                                           !.options = options, !.entry = "toPng",
                                           !.err = "TypeError"]
                       ELSE NoCall]
    /\ ncalls' = ncalls + 1
    /\ UNCHANGED <<map, doc>>

NextEntry ==
    \/ Next
    \/ \E c \in Slots : CallToPng(c)

SpecEntry == Init /\ [][NextEntry]_vars

\* C13: a call of toPng(widget, options) does what toElement(widget, options)
\* does with the format 'png': the step of the call leaves the widget, the
\* document and the frame of the call as toElement leaves them for the same
\* options with format 'png'.
C13_ToPngAsToElement ==
    [][ \A c \in Slots :
          (calls'[c].entry = "toPng" /\ calls'[c].seq = ncalls + 1) =>
              \E cached \in BOOLEAN :
                  LET o == [calls'[c].options EXCEPT !.format = "png"]
                      w == toElement([Here EXCEPT !.calls = [d \in Slots |-> NoCall]],
                                     c, ncalls + 1, o, cached)
                  IN  /\ map' = w.map
                      /\ doc' = w.doc
                      /\ [calls'[c] EXCEPT !.entry = "toElement", !.options = o]
                             = w.calls[c] ]_vars

(***************************************************************************)
(* Progress.  The browser runs a frame that was requested, sources finish  *)
(* loading, and every rasterization settles.                               *)
(***************************************************************************)
Fairness ==
    /\ WF_vars(Frame)
    /\ WF_vars(SourcesLoaded)
    /\ \A c \in Slots : WF_vars(CoverDone(c) \/ CoverFailed(c))
    /\ \A c \in Slots : WF_vars(RasterDone(c) \/ RasterFailed(c))

SpecFair == Spec /\ Fairness

Settled(c) == Resolved(c) \/ Rejected(c)

\* the widget has fired 'idle' for the redraw of line 74 of call c: inside
\* redraw(), or later, which is when the listener of the call ran
IdleEmitted(c) == calls[c].idleAtRedraw \/ calls[c].pc = "awaitRaster"

\* C14: when the widget has fired 'idle' for the redraw forced by a call,
\* whether inside redraw() or after the listener was registered, and the
\* rasterizations settle, the promise of the call is eventually settled.
C14_EventuallySettles ==
    \A c \in Slots : (InProgress(c) /\ IdleEmitted(c)) ~> Settled(c)

(***************************************************************************)
(* Calls that overlap: the caller calls toElement again while an earlier   *)
(* call is suspended (at the await of line 49, at the idle wait, or at the *)
(* rasterization of the clone).                                            *)
(***************************************************************************)
\* the options of the calls that may overlap: a capture of a bounding box
\* behind the cover, and a capture of the current viewport without cover
OverlapOptions ==
    { [BaseOptions EXCEPT !.bbox = Box("bbox", 0)],
      [BaseOptions EXCEPT !.coverEdits = "false"] }

\* the frame a new call takes: one never used if there is one, else one of a
\* settled call
FreeSlot(c) ==
    /\ ~InProgress(c)
    /\ calls[c].pc # "none" => \A d \in Slots : calls[d].pc # "none"
    /\ \A d \in Slots : (d < c /\ ~InProgress(d)) => calls[d].pc # calls[c].pc

\* the number of a call in progress, 0 when there is none
CallInProgress ==
    IF \E d \in Slots : InProgress(d)
      THEN calls[CHOOSE d \in Slots : InProgress(d)].seq ELSE 0

\* the caller calls toElement(map, options), whether or not another call is
\* in progress
CallAnytime(c) ==
    /\ ncalls < MaxCalls
    /\ FreeSlot(c)
    /\ \E options \in OverlapOptions : \E cached \in Cached(options.bbox # NoBox) :
         Goto([toElement(Here, c, ncalls + 1, options, cached)
                  EXCEPT !.calls[c].during = CallInProgress])
    /\ ncalls' = ncalls + 1

NextOverlap ==
    \/ \E c \in Slots : CallAnytime(c)
    \/ \E c \in Slots : CoverDone(c)
    \/ \E c \in Slots : CoverFailed(c)
    \/ SourcesLoaded
    \/ Frame
    \/ \E c \in Slots : RasterDone(c)
    \/ \E c \in Slots : RasterFailed(c)

SpecOverlap == Init /\ [][NextOverlap]_vars

\* map._canvasContextAttributes?.preserveDrawingBuffer
Flag(m) == IF m.attrs.present THEN m.attrs.preserveDrawingBuffer ELSE "undefined"

\* call d cloned the container while the clone of call c was attached to it,
\* and took a copy of that clone into its own
CloneInClone(c, d) ==
    /\ \E i \in 1..Len(calls[d].pre.kids) : calls[d].pre.kids[i].owner = calls[c].seq
    /\ \E x \in Descendants(calls[d].raster.node) : x.id = "virtual-map-container"

\* calls c and d, made in this order, have both resolved, and the widget is
\* not as it was before c, or the clone of d holds that of c
Interfered(c, d) ==
    /\ c # d
    /\ Resolved(c) /\ Resolved(d)
    /\ calls[c].seq < calls[d].seq
    /\ \/ map.bounds # calls[c].pre.bounds
       \/ ComputedZIndex(doc) # calls[c].pre.zIndex
       \/ Flag(map) # calls[c].preserveDrawingBuffer
       \/ CloneInClone(c, d)

\* C15: two calls on one widget that overlap are not isolated.  When two
\* calls made one after the other have both resolved and the viewport, the
\* z-index of the container or the preserveDrawingBuffer flag is not what it
\* was before the first of them, or the clone of the second holds the clone
\* of the first, the second was made while the first was in progress (or the
\* first while a call before it was); and such outcomes are reached
\* (C15_Witness).
C15_InterferenceByOverlap ==
    \A c, d \in Slots :
        Interfered(c, d) /\ calls[d].seq = calls[c].seq + 1 =>
            calls[d].during = calls[c].seq \/ calls[c].during # 0

\* two overlapping calls have resolved and the widget is not as before
C15_Witness ==
    \E c, d \in Slots : Interfered(c, d) /\ calls[d].during = calls[c].seq

\* ... with the viewport left on the bounding box of a call
C15_WitnessViewport ==
    \E c, d \in Slots : Interfered(c, d) /\ map.bounds # calls[c].pre.bounds

\* ... with the z-index left at the 0 of line 62
C15_WitnessZIndex ==
    \E c, d \in Slots : Interfered(c, d) /\ ComputedZIndex(doc) # calls[c].pre.zIndex

\* ... with preserveDrawingBuffer left at the true of line 44
C15_WitnessFlag ==
    \E c, d \in Slots : Interfered(c, d) /\ Flag(map) # calls[c].preserveDrawingBuffer

\* ... with the clone of the first call copied into that of the second
C15_WitnessClone ==
    \E c, d \in Slots : Interfered(c, d) /\ CloneInClone(c, d)

(***************************************************************************)
(* What waits for 'idle'.                                                  *)
(***************************************************************************)
\* C16: the overlay edits, the pixel copy, the restoration of the viewport,
\* the attachment of the clone and the rasterization of the clone are done by
\* the 'idle' listener and by nothing else, in this order; as long as the
\* widget has not called the listener of a call, the call has changed no
\* layer visibility, started no camera animation, attached no clone and
\* called no rasterizer on its clone.
C16_AfterIdleInOrder ==
    \A c \in Slots :
        LET f == calls[c]
        IN  /\ f.log # <<>> => f.heard
            /\ f.heard => f.log = <<"manageOverlayVisibility", "copyCanvas", "fitBounds",
                                    "append", "imgFunc">>
            /\ (f.pc # "none" /\ ~f.heard) =>
                 /\ f.pc \in {"awaitCover", "awaitIdle", "rejected"}
                 /\ f.raster.invoked = 0
                 /\ \A i \in 1..Len(doc.container.kids) :
                        doc.container.kids[i].owner # f.seq
                 /\ map.layers = f.pre.layers
                 /\ map.flight = NoBox
            /\ f.heard => f.raster.invoked = 1

\* the listener of a call with a bbox and layer overrides has run; the clone
\* is at the rasterizer
C16_Witness ==
    \E c \in Slots :
        /\ calls[c].heard
        /\ calls[c].pc = "awaitRaster"
        /\ calls[c].options.bbox # NoBox
        /\ calls[c].options.hideVisibleLayers # <<>>

(***************************************************************************)
(* The cover image.                                                        *)
(***************************************************************************)
\* C17: a call with coverEdits not false changes the viewport and the layer
\* visibilities of the widget only while its cover image is in the document
\* (the cover is put up before line 72), and its cover is taken away only
\* when the call has resolved, the viewport restored and the target assigned;
\* a call with coverEdits false has no cover image at any time.
C17_EditsBehindCover ==
    \A c \in Slots :
        LET f == calls[c]
            attached == f.seq \in Range(doc.covers)
        IN  f.pc # "none" =>
              IF CoverEdits(f.options)
                THEN /\ f.uncovered = {}
                     /\ f.pc \in {"awaitIdle", "awaitRaster"} => f.photocover /\ attached
                     /\ (f.photocover /\ ~attached) =>
                            /\ Resolved(c)
                            /\ f.assigned = 1 /\ doc.targetSrc.seq = f.seq
                            /\ "fitBounds" \in Range(f.log)
                            /\ map.bounds = f.originalBounds /\ map.flight = NoBox
                ELSE ~f.photocover /\ ~attached /\ f.cover = "none"

\* a call with a bbox and layer overrides, made with the cover, has resolved
\* and its cover is gone
C17_Witness ==
    \E c \in Slots :
        /\ Resolved(c)
        /\ calls[c].photocover
        /\ calls[c].seq \notin Range(doc.covers)
        /\ calls[c].options.bbox # NoBox
        /\ calls[c].options.hideVisibleLayers # <<>>

(***************************************************************************)
(* The live container.                                                     *)
(***************************************************************************)
\* C18: the hide options act on the clone.  From the start of a call on, the
\* children of the live container, the clone of the call set aside, are the
\* nodes that were there before the call, controls, markers, popups and
\* canvas included; once the call has resolved the children are exactly the
\* nodes of before the call.
C18_ContainerKept ==
    \A c \in Slots :
        calls[c].pc # "none" =>
            /\ removeOwned(doc.container, calls[c].seq).kids = calls[c].pre.kids
            /\ Resolved(c) => doc.container.kids = calls[c].pre.kids

\* a call with every hide option has resolved on a container with controls,
\* markers and a popup; none of them was in the clone that was rasterized
C18_Witness ==
    \E c \in Slots :
        /\ Resolved(c)
        /\ calls[c].options.hideAllControls
        /\ calls[c].options.hideMarkers
        /\ calls[c].options.hidePopups
        /\ querySelectorAll(doc.container, Sel("", "maplibregl-marker")) # {}
        /\ querySelectorAll(doc.container, Sel("", "maplibregl-popup")) # {}
        /\ querySelectorAll(doc.container, Sel("canvas", "maplibregl-canvas")) # {}
        /\ querySelectorAll(calls[c].raster.node, Sel("", "maplibregl-marker")) = {}

(***************************************************************************)
(* The preserveDrawingBuffer flag.                                         *)
(***************************************************************************)
\* the call forced the flag to true and redrew (lines 43-46)
Forced(c) == "preserveDrawingBuffer" \in Range(calls[c].warned)

\* C19: for every coverEdits and every initial setting of the flag (true,
\* false, no _canvasContextAttributes), a call that found its target and
\* whose rasterization of the clone succeeded has resolved, and the flag is
\* the one read at line 37; the call forced the flag to true exactly when
\* coverEdits was on and the flag read was not true.
C19_FlagRestored ==
    \A c \in Slots :
        LET f == calls[c]
        IN  f.pc # "none" =>
              /\ (f.raster.outcome = "ok" /\ f.targetImageElement # "null") =>
                     Resolved(c) /\ Flag(map) = f.preserveDrawingBuffer
              /\ Forced(c) <=> CoverEdits(f.options) /\ f.preserveDrawingBuffer # "true"

\* the same, the calls without cover on a widget without
\* _canvasContextAttributes set aside
C19_FlagRestoredWithAttributes ==
    \A c \in Slots :
        LET f == calls[c]
        IN  (f.pc # "none" /\ (f.pre.attrs \/ CoverEdits(f.options))) =>
              /\ (f.raster.outcome = "ok" /\ f.targetImageElement # "null") =>
                     Resolved(c) /\ Flag(map) = f.preserveDrawingBuffer
              /\ Forced(c) <=> CoverEdits(f.options) /\ f.preserveDrawingBuffer # "true"

====
